---- MODULE Spec2Model ----
(***************************************************************************)
(* climate_toolbox.aggregations.aggregations: weighted aggregation of      *)
(* gridded data to regions, and the memoized weights provider.             *)
(*                                                                         *)
(* Floating-point numbers are modelled exactly: a number is a pair         *)
(* <<n, d>>.  <<0, 0>> is not-a-number, <<n, d>> with d > 0 is the         *)
(* rational n/d in lowest terms, <<1, 0>> and <<-1, 0>> are the two        *)
(* infinities.  Rounding is not modelled.                                  *)
(***************************************************************************)
EXTENDS Integers, Sequences, FiniteSets, TLC

\* ------------------------------------------------------------------ bounds

\* Longest weights table (rows) given to the aggregation functions.
MaxRows == 2

\* ----------------------------------------------------------------- numbers

NaN == <<0, 0>>

Abs(n) == IF n < 0 THEN 0 - n ELSE n

Sign(n) == IF n < 0 THEN 0 - 1 ELSE IF n = 0 THEN 0 ELSE 1

RECURSIVE GCD(_, _)
GCD(a, b) == IF b = 0 THEN a ELSE GCD(b, a % b)

\* n/d with d >= 0; d = 0 is an infinity (n # 0) or not-a-number (n = 0).
Ratio(n, d) ==
    IF d = 0
    THEN <<Sign(n), 0>>
    ELSE LET g == GCD(Abs(n), d) IN <<n \div g, d \div g>>

Num(n) == <<n, 1>>

IsNaN(x) == x = NaN

\* x * y on floats: not-a-number propagates, 0 * inf is not-a-number.
FMul(x, y) ==
    IF IsNaN(x) \/ IsNaN(y) THEN NaN
    ELSE Ratio(x[1] * y[1], x[2] * y[2])

\* x + y on floats: not-a-number propagates, inf - inf is not-a-number.
FAdd(x, y) ==
    IF IsNaN(x) \/ IsNaN(y) THEN NaN
    ELSE IF x[2] = 0 /\ y[2] = 0
         THEN IF x[1] = y[1] THEN x ELSE NaN
         ELSE IF x[2] = 0 THEN x
         ELSE IF y[2] = 0 THEN y
         ELSE Ratio(x[1] * y[2] + y[1] * x[2], x[2] * y[2])

\* x / y on floats: 0/0 and inf/inf are not-a-number, n/0 is an infinity.
FDiv(x, y) ==
    IF IsNaN(x) \/ IsNaN(y) THEN NaN
    ELSE LET n == x[1] * y[2]
             d == x[2] * y[1]
         IN  IF d < 0 THEN Ratio(0 - n, 0 - d) ELSE Ratio(n, d)

\* x > 0 on floats: false for not-a-number.
FGtZero(x) == ~IsNaN(x) /\ x[1] > 0

\* ------------------------------------------------------- call outcomes

\* A call either raises an exception or returns a value.
Raise(e) == [status |-> e]

Return(v) == [status |-> "ok", value |-> v]

\* ------------------------------------------------------ aggregation inputs

\* Index labels of the extra dimension ("time") of the gridded dataset.
Times == {"t1", "t2"}

\* Coordinate axes of the gridded dataset.
GridLon == {0, 1}

GridLat == {0}

\* Longitudes and latitudes a weights row may carry: the axes plus one
\* value that is on no axis.
RowLon == GridLon \cup {2}

RowLat == GridLat \cup {5}

\* Values of a weight column: undefined, zero, or a small positive number.
WeightValues == {NaN, Num(0), Num(1), Num(2)}

ISOLabels == {"A", "B"}

HierLabels == {"h1", "h2"}

WeightCols == {"popwt", "areawt"}

\* The dataset for cell values a (lon 0) and b (lon 1) at t1, c and d at t2.
Grid(a, b, c, d) ==
    [lon |-> GridLon, lat |-> GridLat, time |-> Times,
     tas |-> [k \in GridLon \X GridLat \X Times |->
                IF k[3] = "t1" THEN (IF k[1] = 0 THEN a ELSE b)
                               ELSE (IF k[1] = 0 THEN c ELSE d)]]

\* The gridded datasets the calls are tried on: every cell defined, one
\* cell undefined at one time step, and a time step with no defined cell.
Grids ==
    { Grid(Num(1), Num(3), Num(3), Num(3)),
      Grid(Num(1), NaN,    Num(3), Num(1)),
      Grid(NaN,    NaN,    Num(1), Num(3)) }

\* The table whose rows are the records of the sequence rows, column-wise.
Frame(rows, cols) ==
    [c \in cols |-> [i \in 1..Len(rows) |-> rows[i][c]]]

AllCols == {"lon", "lat", "ISO", "hierid", "popwt", "areawt"}

\* Row i of a table whose points all lie on the grid sits at this longitude.
LonOf(i) == i % 2

\* Rows with every combination of primary and backup weight, on the grid.
ReduceRow ==
    [lon : {0}, lat : GridLat, ISO : ISOLabels, hierid : {"h1"},
     popwt : WeightValues, areawt : {NaN, Num(0), Num(2)}]

\* Rows anywhere, on the grid or off it, with unit weights.
ReindexRow ==
    [lon : RowLon, lat : RowLat, ISO : ISOLabels, hierid : {"h1"},
     popwt : {Num(1)}, areawt : {Num(1)}]

\* Rows with two region-label columns.
MultiRow ==
    [lon : {0}, lat : GridLat, ISO : ISOLabels, hierid : HierLabels,
     popwt : {Num(0), Num(2)}, areawt : {Num(1)}]

\* Rows of a table that has no areawt column: every primary weight positive.
NoBackupRow ==
    [lon : {0}, lat : GridLat, ISO : ISOLabels, hierid : {"h1"},
     popwt : {Num(1), Num(2)}]

OnGrid(rows) == [i \in 1..Len(rows) |-> [rows[i] EXCEPT !.lon = LonOf(i)]]

\* t is one of the weights tables of n rows the calls are tried on.  The
\* labels being interchangeable, the first row of the tables that vary the
\* weights is labelled "A".
IsWeightTable(t, n) ==
    \/ \E r \in [1..n -> ReduceRow] : r[1].ISO = "A" /\ t = Frame(OnGrid(r), AllCols)
    \/ \E r \in [1..n -> ReindexRow] : t = Frame(r, AllCols)
    \/ \E r \in [1..n -> MultiRow] : t = Frame(OnGrid(r), AllCols)
    \/ \E r \in [1..n -> NoBackupRow] : t = Frame(OnGrid(r), AllCols \ {"areawt"})

\* --------------------------------------------------- spatial reindexer

\* A reindexer that takes the nearest coordinate for a label that is on no
\* axis, as ds.sel(..., method='nearest') would: C5 excludes it.
reindex_nearest(ds, df) ==
    LET n == Len(df.lon)
        near(x, axis) == CHOOSE c \in axis : \A o \in axis : Abs(c - x) <= Abs(o - x)
    IN  Return([time |-> ds.time,
                tas  |-> [i \in 1..n |->
                           [t \in ds.time |->
                              ds.tas[<<near(df.lon[i], ds.lon), near(df.lat[i], ds.lat), t>>]]]])

\* ds.sel(lon=lon_indexer, lat=lat_indexer): exact label lookup, one entry
\* per weights row; a label that is on no axis raises KeyError.
reindex_spatial_data_to_regions(ds, df) ==
    LET n == Len(df.lon) IN
    IF \E i \in 1..n : df.lon[i] \notin ds.lon \/ df.lat[i] \notin ds.lat
    THEN Raise("KeyError")
    ELSE Return([time |-> ds.time,
                 tas  |-> [i \in 1..n |->
                            [t \in ds.time |-> ds.tas[<<df.lon[i], df.lat[i], t>>]]]])

\* ---------------------------------------------------- weighted reducer

\* A reducer that masks the weights that are not positive and fills
\* nothing in: C2 excludes it.
where_only(w, backup) == IF FGtZero(w) THEN w ELSE NaN

\* ds[aggwt].where(ds[aggwt] > 0).fillna(backup) for one point.
where_fillna(w, backup) == IF FGtZero(w) THEN w ELSE backup

\* .groupby(labels).sum() for group r: the sum, not-a-number entries
\* skipped, of the entries of vals from row i on whose label is r.
RECURSIVE GroupSum(_, _, _, _)
GroupSum(vals, labels, r, i) ==
    IF i > Len(vals) THEN Num(0)
    ELSE IF labels[i] # r \/ IsNaN(vals[i]) THEN GroupSum(vals, labels, r, i + 1)
    ELSE FAdd(vals[i], GroupSum(vals, labels, r, i + 1))

\* A quotient that reports 0 where it is undefined: C3 excludes it.
ZeroFilledMean(num, den) == IF IsNaN(FDiv(num, den)) THEN Num(0) ELSE FDiv(num, den)

\* Lines 85-95: the group's weighted sum over the group's weight sum.
WeightedMean(num, den) == FDiv(num, den)

\* Lines 71-83: the region labels and the weights are attached to ds, and
\* the weights that are not positive are replaced by the backup column's.
\* A column the table lacks raises KeyError where it is read; what was
\* attached before stays attached.
FormatWeights(ds, aggwt, agglev, weights, backup_aggwt) ==
    IF agglev \notin DOMAIN weights THEN [ds |-> ds, status |-> "KeyError"]
    ELSE LET ds1 == (agglev :> weights[agglev]) @@ ds IN
    IF aggwt \notin DOMAIN weights THEN [ds |-> ds1, status |-> "KeyError"]
    ELSE LET ds2 == (aggwt :> weights[aggwt]) @@ ds1 IN
    IF backup_aggwt \notin DOMAIN weights THEN [ds |-> ds2, status |-> "KeyError"]
    ELSE [ds |-> (aggwt :> [i \in 1..Len(weights[aggwt]) |->
                     where_fillna(weights[aggwt][i], weights[backup_aggwt][i])]) @@ ds1,
          status |-> "ok"]

\* Returns the dataset as the call leaves it (ds) and what the call raises
\* or returns (out).
aggregate_reindexed_data_to_regions(ds, variable, aggwt, agglev, weights, backup_aggwt) ==
    LET f == FormatWeights(ds, aggwt, agglev, weights, backup_aggwt) IN
    IF f.status # "ok" THEN [ds |-> f.ds, out |-> Raise(f.status)]
    ELSE LET labels == f.ds[agglev]
             wt     == f.ds[aggwt]
             n      == Len(labels)
             prod   == [t \in ds.time |-> [i \in 1..n |-> FMul(ds[variable][i][t], wt[i])]]
         IN  [ds  |-> f.ds,
              out |-> Return([k \in {labels[i] : i \in 1..n} \X ds.time |->
                        WeightedMean(GroupSum(prod[k[2]], labels, k[1], 1),
                                     GroupSum(wt, labels, k[1], 1))])]

\* The array-based path: the reindexer, then the reducer on its result.
ArrayPath(ds, variable, aggwt, agglev, weights, backup_aggwt) ==
    LET r == reindex_spatial_data_to_regions(ds, weights) IN
    IF r.status # "ok" THEN [ds |-> r, out |-> r]
    ELSE LET a == aggregate_reindexed_data_to_regions(
                      r.value, variable, aggwt, agglev, weights, backup_aggwt)
         IN  [ds |-> Return(a.ds), out |-> a.out]

\* An entry point whose backup column is the weight column itself, so that
\* no other column is read: C10 excludes it.
BackupIsAggwt(ds, variable, aggwt, agglev, weights) ==
    ArrayPath(ds, variable, aggwt, agglev, weights, aggwt)

\* Lines 168-176 of weighted_aggregate_grid_to_regions, weights being a
\* table: the reducer is called without backup_aggwt, which is 'areawt'.
weighted_aggregate_grid_to_regions(ds, variable, aggwt, agglev, weights) ==
    ArrayPath(ds, variable, aggwt, agglev, weights, "areawt")

\* ------------------------------------------------------ aggregate_array

\* Series.fillna(v) for one entry.
fillna(x, v) == IF IsNaN(x) THEN v ELSE x

\* A denominator that counts every row's weight, its value defined or not:
\* C9 excludes it.
EveryWeight(w, value) == w

\* Lines 118-120: the weight of a row counts only where its value is not
\* null.
CountedWeight(w, value) == IF IsNaN(value) THEN NaN ELSE w

\* A quotient filled with 0 where it is undefined, the fillna of line 126
\* applied to the result: C4 excludes it.
FilledQuotient(num, den) == fillna(FDiv(num, den), Num(0))

\* Line 126: the group's weighted sum times the reciprocal of its weight
\* sum, a not-a-number reciprocal replaced by 0.
TimesReciprocal(num, den) == FMul(num, fillna(FDiv(Num(1), den), Num(0)))

aggregate_array(arr, weight_df, weight_col, region_cols, lon_name, lat_name) ==
    IF lon_name \notin DOMAIN weight_df \/ lat_name \notin DOMAIN weight_df
    THEN Raise("KeyError")
    ELSE
    LET n == Len(weight_df[lon_name]) IN
    IF \E i \in 1..n : weight_df[lon_name][i] \notin arr[lon_name]
                       \/ weight_df[lat_name][i] \notin arr[lat_name]
    THEN Raise("KeyError")
    ELSE IF (\E k \in 1..Len(region_cols) : region_cols[k] \notin DOMAIN weight_df)
            \/ weight_col \notin DOMAIN weight_df
    THEN Raise("KeyError")
    ELSE
    LET \* the sampled values, one row per (SEGMENT_INDEX, time)
        value == [t \in arr.time |-> [i \in 1..n |->
                    arr.tas[<<weight_df[lon_name][i], weight_df[lat_name][i], t>>]]]
        \* the region columns of each row
        keys == [i \in 1..n |->
                    [k \in 1..Len(region_cols) |-> weight_df[region_cols[k]][i]]]
        \* __temp_weighted_output_variable__
        weighted == [t \in arr.time |-> [i \in 1..n |->
                        FMul(weight_df[weight_col][i], value[t][i])]]
        counted == [t \in arr.time |-> [i \in 1..n |->
                        CountedWeight(weight_df[weight_col][i], value[t][i])]]
    IN  Return([g \in {keys[i] : i \in 1..n} \X arr.time |->
                  TimesReciprocal(GroupSum(weighted[g[2]], keys, g[1], 1),
                                  GroupSum(counted[g[2]], keys, g[1], 1))])

\* ------------------------------------------------------------ the state

VARIABLES
    ds,        \* the gridded dataset handed to the aggregation functions
    weights,   \* the weights table handed to them
    call,      \* the aggregation call made: its function and arguments
    reindexed, \* the reindexed dataset of the array-based path, as the call leaves it
    result     \* what the call raised or returned

aggVars == <<ds, weights, call, reindexed, result>>

NoCall == [fn |-> "none"]

InitAgg ==
    /\ ds \in Grids
    /\ \E n \in 1..MaxRows : IsWeightTable(weights, n)
    /\ call = NoCall
    /\ reindexed = Raise("pending")
    /\ result = Raise("pending")

\* weighted_aggregate_grid_to_regions(ds, 'tas', aggwt, 'ISO', weights)
WeightedAggregateGridToRegions ==
    /\ call = NoCall
    /\ \E aggwt \in WeightCols :
         LET r == weighted_aggregate_grid_to_regions(ds, "tas", aggwt, "ISO", weights) IN
         /\ call' = [fn |-> "weighted_aggregate_grid_to_regions", aggwt |-> aggwt,
                     agglev |-> "ISO", backup_aggwt |-> "areawt"]
         /\ reindexed' = r.ds
         /\ result' = r.out
    /\ UNCHANGED <<ds, weights>>

\* _aggregate_reindexed_data_to_regions(_reindex_spatial_data_to_regions(ds,
\* weights), 'tas', 'areawt', 'ISO', weights, backup_aggwt='popwt'): the
\* reducer called with a backup column of the caller's choice.
AggregateReindexedDataToRegions ==
    /\ call = NoCall
    /\ \E aggwt \in {"areawt"} :
         LET r == ArrayPath(ds, "tas", aggwt, "ISO", weights, "popwt") IN
         /\ call' = [fn |-> "aggregate_reindexed_data_to_regions", aggwt |-> aggwt,
                     agglev |-> "ISO", backup_aggwt |-> "popwt"]
         /\ reindexed' = r.ds
         /\ result' = r.out
    /\ UNCHANGED <<ds, weights>>

\* aggregate_array(ds.tas, weights, weight_col, region_cols, 'lon', 'lat')
AggregateArray ==
    /\ call = NoCall
    /\ \E weight_col \in WeightCols, region_cols \in {<<"ISO">>, <<"ISO", "hierid">>} :
         /\ Len(region_cols) > 1 => weight_col = "popwt"
         /\ call' = [fn |-> "aggregate_array", weight_col |-> weight_col,
                     region_cols |-> region_cols]
         /\ result' = aggregate_array(ds, weights, weight_col, region_cols, "lon", "lat")
    /\ UNCHANGED <<ds, weights, reindexed>>

\* ------------------------------------------------------ weights provider

\* The longitude line 209 looks for and the one it writes, in thousandths of
\* a degree (180.125 and -179.875).
OutOfBoundsLon == 180125

WrappedLon == -179875

\* The names bound in the module's global namespace: the imports of lines
\* 1-5 and the five functions.  The module binds no other name.
ModuleGlobals ==
    {"xr", "np", "pd", "toolz", "LooseVersion",
     "_reindex_spatial_data_to_regions", "_aggregate_reindexed_data_to_regions",
     "aggregate_array", "weighted_aggregate_grid_to_regions",
     "_prepare_spatial_weights_data"}

\* The threads that call the provider.
Callers == {"c1", "c2"}

\* All calls made by all callers together.
MaxCalls == 3

\* The one weights file an explicit argument names, and the archive the
\* default source would name.
Paths == {"w.csv"}

RawRow ==
    [pix_cent_x : {OutOfBoundsLon, WrappedLon, 0}, pix_cent_y : {0, OutOfBoundsLon},
     ISO : {"A"}, popwt : {Num(1)}]

RawCols == {"pix_cent_x", "pix_cent_y", "ISO", "popwt"}

\* What pd.read_csv returns: the file's rows under a default, unnamed index.
RawTables ==
    { [index_name |-> "None", cols |-> Frame(r, RawCols)] :
        r \in UNION { [1..n -> RawRow] : n \in 1..MaxRows } }

NRows(df) == Len(df.cols[CHOOSE c \in DOMAIN df.cols : TRUE])

\* df.set_value(mask, col, value) with a boolean mask: the index engine
\* refuses the mask as a key, and set_value falls back to
\* df.loc[mask, col] = value, in place.
set_value(df, mask, col, value) ==
    [df EXCEPT !.cols[col] =
        [i \in 1..NRows(df) |-> IF mask[i] THEN value ELSE df.cols[col][i]]]

\* Row i of df as a record.
RowAt(df, i) == [c \in DOMAIN df.cols |-> df.cols[c][i]]

\* The indices of the rows df.drop_duplicates() keeps (the first of each).
KeptRows(df) ==
    {i \in 1..NRows(df) : \A j \in 1..(i - 1) : RowAt(df, j) # RowAt(df, i)}

RECURSIVE TakeRows(_, _, _)
TakeRows(col, kept, i) ==
    IF i > Len(col) THEN <<>>
    ELSE (IF i \in kept THEN <<col[i]>> ELSE <<>>) \o TakeRows(col, kept, i + 1)

\* df.drop_duplicates(): a new table; df itself is not changed.
drop_duplicates(df) ==
    [df EXCEPT !.cols = [c \in DOMAIN df.cols |-> TakeRows(df.cols[c], KeptRows(df), 1)]]

\* df.rename(columns=mapping, inplace=True)
rename(df, mapping) ==
    LET newName(c) == IF c \in DOMAIN mapping THEN mapping[c] ELSE c
        oldName(n) == CHOOSE c \in DOMAIN df.cols : newName(c) = n
    IN  [df EXCEPT !.cols = [n \in {newName(c) : c \in DOMAIN df.cols} |->
                               df.cols[oldName(n)]]]

\* A normalization that keeps what drop_duplicates returns: C8 excludes it.
NormalizeDeduplicated(df) ==
    LET relabelled == set_value(
            df, [i \in 1..NRows(df) |-> df.cols["pix_cent_x"][i] = OutOfBoundsLon],
            "pix_cent_x", WrappedLon)
        dropped == drop_duplicates(relabelled)
        named   == [dropped EXCEPT !.index_name = "reshape_index"]
    IN  rename(named, [pix_cent_x |-> "lon", pix_cent_y |-> "lat"])

\* Lines 208-219 on the table read from the source.
NormalizeWeights(df) ==
    LET relabelled == set_value(
            df, [i \in 1..NRows(df) |-> df.cols["pix_cent_x"][i] = OutOfBoundsLon],
            "pix_cent_x", WrappedLon)
        \* line 212: the result of drop_duplicates is not kept
        dropped == drop_duplicates(relabelled)
        named   == [relabelled EXCEPT !.index_name = "reshape_index"]
    IN  rename(named, [pix_cent_x |-> "lon", pix_cent_y |-> "lat"])

\* toolz.memoize's key for a call f(*args) of a function that has keyword
\* defaults: (args or None, frozenset(kwargs.items()) if kwargs else None).
\* The calls modelled pass no keyword; the empty tuple stands for None.
MemoKey(args) == <<args, <<>>>>

VARIABLES
    files,     \* the readable weights files: path -> the table read_csv gives
    cache,     \* toolz.memoize's dict: key -> the object stored
    heap,      \* the DataFrame objects built so far: object id -> table
    reads,     \* how many times each source has been read
    ncalls,    \* calls started
    pc,        \* each caller's place in memof / _prepare_spatial_weights_data
    args,      \* the positional arguments of each caller's current call
    via,       \* "direct", or "weighted_aggregate_grid_to_regions"
    local,     \* the object the caller's running function body works on
    ret        \* what the caller's last call raised or returned

provVars == <<files, cache, heap, reads, ncalls, pc, args, via, local, ret>>

vars == <<ds, weights, call, reindexed, result, files, cache, heap, reads, ncalls, pc, args,
          via, local, ret>>

NoObject == 0

InitProv ==
    /\ files \in [Paths -> RawTables] \cup {<<>>}
    /\ cache = <<>>
    /\ heap = <<>>
    /\ reads = [s \in {"WEIGHTS_FILE"} \cup Paths |-> 0]
    /\ ncalls = 0
    /\ pc = [c \in Callers |-> "idle"]
    /\ args = [c \in Callers |-> <<>>]
    /\ via = [c \in Callers |-> "direct"]
    /\ local = [c \in Callers |-> NoObject]
    /\ ret = [c \in Callers |-> Raise("pending")]

\* What the caller of the memoized function gets once it has the table:
\* the table itself, or, through weighted_aggregate_grid_to_regions
\* (lines 165-176), the aggregation of ds with that table.
Deliver(c, obj) ==
    IF via[c] = "direct" THEN Return(obj)
    ELSE weighted_aggregate_grid_to_regions(ds, "tas", "popwt", "ISO", heap[obj].cols).out

\* A caller calls _prepare_spatial_weights_data(*a), directly or as
\* weighted_aggregate_grid_to_regions(..., weights=None) does (no argument).
\* memof computes the key and looks it up: a hit returns the cached object,
\* a miss (KeyError) goes on to call the function.
MemoLookup(c) ==
    /\ pc[c] \in {"idle", "done"}
    /\ ncalls < MaxCalls
    /\ \E a \in {<<>>} \cup {<<p>> : p \in Paths}, v \in {"direct", "wagr"} :
         /\ v = "wagr" => a = <<>>
         /\ args' = [args EXCEPT ![c] = a]
         /\ via' = [via EXCEPT ![c] = v]
         /\ IF MemoKey(a) \in DOMAIN cache
            THEN /\ pc' = [pc EXCEPT ![c] = "done"]
                 /\ ret' = [ret EXCEPT ![c] =
                      IF v = "direct" THEN Return(cache[MemoKey(a)])
                      ELSE weighted_aggregate_grid_to_regions(
                               ds, "tas", "popwt", "ISO", heap[cache[MemoKey(a)]].cols).out]
            ELSE /\ pc' = [pc EXCEPT ![c] = "func"]
                 /\ ret' = [ret EXCEPT ![c] = Raise("pending")]
    /\ ncalls' = ncalls + 1
    /\ local' = [local EXCEPT ![c] = NoObject]
    /\ UNCHANGED <<files, cache, heap, reads>>

\* Lines 195-206, datafs being installed: with no argument the function
\* reads the global WEIGHTS_FILE and opens that archive; with one it reads
\* the file.  A name the module does not bind raises NameError, a file that
\* cannot be read an IOError; the exception leaves memof without a cache
\* entry.
FuncRead(c) ==
    /\ pc[c] = "func"
    /\ LET source == IF args[c] = <<>> THEN "WEIGHTS_FILE" ELSE args[c][1]
           id == Len(heap) + 1
       IN  IF args[c] = <<>> /\ "WEIGHTS_FILE" \notin ModuleGlobals
           THEN /\ ret' = [ret EXCEPT ![c] = Raise("NameError")]
                /\ pc' = [pc EXCEPT ![c] = "done"]
                /\ UNCHANGED <<heap, reads, local>>
           ELSE IF source \notin DOMAIN files
           THEN /\ ret' = [ret EXCEPT ![c] = Raise("IOError")]
                /\ pc' = [pc EXCEPT ![c] = "done"]
                /\ UNCHANGED <<heap, reads, local>>
           ELSE /\ heap' = Append(heap, files[source])
                /\ reads' = [reads EXCEPT ![source] = @ + 1]
                /\ local' = [local EXCEPT ![c] = id]
                /\ pc' = [pc EXCEPT ![c] = "loaded"]
                /\ UNCHANGED ret
    /\ UNCHANGED <<files, cache, ncalls, args, via>>

\* Lines 208-217: the table is normalized in place.
FuncNormalize(c) ==
    /\ pc[c] = "loaded"
    /\ heap' = [heap EXCEPT ![local[c]] = NormalizeWeights(heap[local[c]])]
    /\ pc' = [pc EXCEPT ![c] = "normalized"]
    /\ UNCHANGED <<files, cache, reads, ncalls, args, via, local, ret>>

\* Line 219 and memof: the function returns df, memof stores it under the
\* key (cache[k] = result) and returns it.
MemoStore(c) ==
    /\ pc[c] = "normalized"
    /\ cache' = [k \in DOMAIN cache \cup {MemoKey(args[c])} |->
                   IF k = MemoKey(args[c]) THEN local[c] ELSE cache[k]]
    /\ ret' = [ret EXCEPT ![c] = Deliver(c, local[c])]
    /\ pc' = [pc EXCEPT ![c] = "done"]
    /\ UNCHANGED <<files, heap, reads, ncalls, args, via, local>>

\* --------------------------------------------- what the claims speak of

Rows == 1..Len(weights.lon)

\* Every weights row's (lon, lat) is a coordinate of the grid.
AllOnGrid == \A i \in Rows : weights.lon[i] \in GridLon /\ weights.lat[i] \in GridLat

\* The grid value at row i's (lon, lat) and time t.
Sampled(i, t) == ds.tas[<<weights.lon[i], weights.lat[i], t>>]

\* A weight that is zero or undefined.
Unset(w) == w = NaN \/ w = Num(0)

\* The weight the fallback policy gives row i: the primary weight when it
\* is defined and not zero, the backup weight of the same row otherwise.
Chosen(primary, backup, i) ==
    IF Unset(weights[primary][i]) THEN weights[backup][i] ELSE weights[primary][i]

\* The sum over the rows S of f, a function from rows to integers.
RECURSIVE Total(_, _)
Total(S, f) ==
    IF S = {} THEN 0
    ELSE LET i == CHOOSE j \in S : TRUE IN f[i] + Total(S \ {i}, f)

\* The float x is the quotient n/d of two integers, d >= 0 (not-a-number
\* when both are 0).
IsQuotient(x, n, d) ==
    IF d = 0 THEN n = 0 /\ x = NaN
    ELSE x[2] > 0 /\ x[1] * d = n * x[2]

\* The float x is sum(v_i * w_i) / sum(w_i) over the rows S at time t, the
\* weight of row i being wt[i].
IsWeightedMean(x, S, wt, t) ==
    IsQuotient(x, Total(S, [i \in S |-> Sampled(i, t)[1] * wt[i][1]]),
                  Total(S, [i \in S |-> wt[i][1]]))

ArrayCall ==
    call.fn \in {"weighted_aggregate_grid_to_regions", "aggregate_reindexed_data_to_regions"}

ISOOf(r) == {i \in Rows : weights.ISO[i] = r}

ISOs == {weights.ISO[i] : i \in Rows}

Init ==
    /\ InitAgg
    /\ files = <<>> /\ cache = <<>> /\ heap = <<>> /\ ncalls = 0
    /\ reads = [s \in {"WEIGHTS_FILE"} \cup Paths |-> 0]
    /\ pc = [c \in Callers |-> "idle"]
    /\ args = [c \in Callers |-> <<>>]
    /\ via = [c \in Callers |-> "direct"]
    /\ local = [c \in Callers |-> NoObject]
    /\ ret = [c \in Callers |-> Raise("pending")]

Next ==
    \/ WeightedAggregateGridToRegions /\ UNCHANGED provVars
    \/ AggregateReindexedDataToRegions /\ UNCHANGED provVars
    \/ AggregateArray /\ UNCHANGED provVars

\* The aggregation functions, each called once on every grid and table.
Spec == Init /\ [][Next]_vars

\* The grid and the table a call through
\* weighted_aggregate_grid_to_regions(ds, 'tas', 'popwt', 'ISO') is given.
InitCache ==
    /\ ds = Grid(Num(1), Num(3), Num(3), Num(3))
    /\ weights = <<>>
    /\ call = NoCall
    /\ reindexed = Raise("pending")
    /\ result = Raise("pending")
    /\ InitProv

NextCache ==
    \E c \in Callers :
        \/ MemoLookup(c) /\ UNCHANGED aggVars
        \/ FuncRead(c) /\ UNCHANGED aggVars
        \/ FuncNormalize(c) /\ UNCHANGED aggVars
        \/ MemoStore(c) /\ UNCHANGED aggVars

\* The memoized weights provider, called by concurrent callers.
SpecCache == InitCache /\ [][NextCache]_vars

\* ------------------------------------------------------------------ claims

\* C1 (as claimed): for every grid and table whose rows lie on the grid,
\* weighted_aggregate_grid_to_regions returns for every region r and time
\* step t the value sum(v_i * w_i) / sum(w_i) over the rows labelled r, v_i
\* the grid value at the row and w_i its effective weight.  A row without
\* an effective weight takes no part; an undefined v_i either makes the
\* value undefined or is left out with its weight: either reading is
\* accepted.
C1_WeightedMeanPerRegion ==
    (call.fn = "weighted_aggregate_grid_to_regions" /\ result.status = "ok") =>
        \A r \in ISOs, t \in Times :
            LET wt == [i \in Rows |-> Chosen(call.aggwt, "areawt", i)]
                I  == {i \in ISOOf(r) : ~IsNaN(wt[i])}
                D  == {i \in I : ~IsNaN(Sampled(i, t))}
                x  == result.value[<<r, t>>]
            IN  \/ D = I /\ IsWeightedMean(x, I, wt, t)
                \/ D # I /\ x = NaN
                \/ IsWeightedMean(x, D, wt, t)

\* C1 where every sampled value of the region is defined at the time step:
\* the value is the weighted mean, and with all weights 1 the plain mean.
C1_DefinedValues ==
    (call.fn = "weighted_aggregate_grid_to_regions" /\ result.status = "ok") =>
        \A r \in ISOs, t \in Times :
            LET wt == [i \in Rows |-> Chosen(call.aggwt, "areawt", i)]
                I  == {i \in ISOOf(r) : ~IsNaN(wt[i])}
            IN  (\A i \in ISOOf(r) : ~IsNaN(Sampled(i, t))) =>
                    /\ IsWeightedMean(result.value[<<r, t>>], I, wt, t)
                    /\ (\A i \in ISOOf(r) : wt[i] = Num(1)) =>
                          IsQuotient(result.value[<<r, t>>],
                                     Total(ISOOf(r), [i \in Rows |-> Sampled(i, t)[1]]),
                                     Cardinality(ISOOf(r)))

\* C1's failing case: two rows of one region with weight 1, the value of
\* one undefined at t1 and the other's 1; the call returns 1/2, which is
\* neither undefined nor the mean of the defined value.
C1_UndefinedValueCountedAsZero ==
    /\ call.fn = "weighted_aggregate_grid_to_regions" /\ call.aggwt = "popwt"
    /\ result.status = "ok"
    /\ Len(weights.lon) = 2 /\ ISOs = {"A"}
    /\ \A i \in Rows : weights.popwt[i] = Num(1)
    /\ IsNaN(Sampled(1, "t1")) /\ Sampled(2, "t1") = Num(1)
    /\ result.value[<<"A", "t1">>] = <<1, 2>>

C3_ZeroWeightIsNaN ==
    /\ (ArrayCall /\ AllOnGrid /\ {call.aggwt, call.backup_aggwt} \subseteq DOMAIN weights) =>
          /\ result.status = "ok"
          /\ \A r \in ISOs :
                (\A i \in ISOOf(r) : Unset(Chosen(call.aggwt, call.backup_aggwt, i))) =>
                    \A t \in Times : /\ <<r, t>> \in DOMAIN result.value
                                     /\ result.value[<<r, t>>] = NaN
    /\ (call.fn = "aggregate_array" /\ AllOnGrid /\ call.weight_col \in DOMAIN weights) =>
          /\ result.status = "ok"
          /\ \A j \in Rows :
                LET g == [k \in 1..Len(call.region_cols) |-> weights[call.region_cols[k]][j]]
                    I == {i \in Rows : \A k \in 1..Len(call.region_cols) :
                              weights[call.region_cols[k]][i] = g[k]}
                IN  (\A i \in I : Unset(weights[call.weight_col][i])) =>
                        \A t \in Times : /\ <<g, t>> \in DOMAIN result.value
                                         /\ result.value[<<g, t>>] = NaN

\* C3's case: both weights of every point of one region are 0, the other
\* region has a value.
C3_Witness ==
    /\ call.fn = "weighted_aggregate_grid_to_regions" /\ result.status = "ok"
    /\ \E r \in ISOs, q \in ISOs :
          /\ \A i \in ISOOf(r) : weights.popwt[i] = Num(0) /\ weights.areawt[i] = Num(0)
          /\ result.value[<<r, "t1">>] = NaN
          /\ result.value[<<q, "t1">>] # NaN

\* Every value the table samples from the grid is defined.
AllSampledDefined == \A i \in Rows, t \in Times : ~IsNaN(Sampled(i, t))

C5_ExactLookup ==
    ArrayCall =>
        IF AllOnGrid
        THEN /\ reindexed.status = "ok"
             /\ DOMAIN reindexed.value.tas = Rows
             /\ \A i \in Rows :
                   /\ DOMAIN reindexed.value.tas[i] = Times
                   /\ \A t \in Times : reindexed.value.tas[i][t] = Sampled(i, t)
        ELSE /\ reindexed.status = "KeyError" /\ "value" \notin DOMAIN reindexed
             /\ result.status = "KeyError" /\ "value" \notin DOMAIN result

\* C5's case: one row on the grid, one row off it, and the lookup error.
C5_Witness ==
    /\ call.fn = "weighted_aggregate_grid_to_regions"
    /\ \E i \in Rows : weights.lon[i] \in GridLon /\ weights.lat[i] \in GridLat
    /\ \E i \in Rows : weights.lon[i] \notin GridLon
    /\ result.status = "KeyError"

\* The region columns of row j in an aggregate_array call.
KeyOf(j) == [k \in 1..Len(call.region_cols) |-> weights[call.region_cols[k]][j]]

\* C9: in aggregate_array a row whose sampled value is undefined at a time
\* step adds nothing to its group's numerator nor to its denominator there,
\* and the other rows count as ever: the group's value is
\* sum(value * weight) / sum(weight) over the rows whose value (and weight)
\* is defined.
C9_UndefinedValueLeftOut ==
    (call.fn = "aggregate_array" /\ result.status = "ok") =>
        \A j \in Rows, t \in Times :
            LET I == {i \in Rows : KeyOf(i) = KeyOf(j)}
                D == {i \in I : ~IsNaN(Sampled(i, t)) /\ ~IsNaN(weights[call.weight_col][i])}
            IN  /\ <<KeyOf(j), t>> \in DOMAIN result.value
                /\ IsWeightedMean(result.value[<<KeyOf(j), t>>], D,
                                  weights[call.weight_col], t)

\* C9's case: a group of two rows with positive weights, one value
\* undefined, and the group's value the other row's.
C9_Witness ==
    /\ call.fn = "aggregate_array" /\ result.status = "ok"
    /\ \E i \in Rows, j \in Rows :
          /\ i # j /\ KeyOf(i) = KeyOf(j)
          /\ FGtZero(weights[call.weight_col][i]) /\ FGtZero(weights[call.weight_col][j])
          /\ IsNaN(Sampled(i, "t1")) /\ Sampled(j, "t1") = Num(1)
          /\ result.value[<<KeyOf(j), "t1">>] = Num(1)

\* C10: weighted_aggregate_grid_to_regions always takes 'areawt' as the
\* backup column, whatever aggwt is: a table without that column raises a
\* lookup error and returns nothing, even when no weight needs a backup;
\* with the column, every zero or undefined weight is replaced by areawt's.
C10_BackupIsAreawt ==
    (call.fn = "weighted_aggregate_grid_to_regions" /\ AllOnGrid) =>
        IF "areawt" \in DOMAIN weights
        THEN /\ result.status = "ok"
             /\ \A i \in Rows : Unset(weights[call.aggwt][i]) =>
                    reindexed.value[call.aggwt][i] = weights.areawt[i]
        ELSE result.status = "KeyError" /\ "value" \notin DOMAIN result

\* C10's case: no areawt column, every primary weight positive, and the
\* lookup error.
C10_Witness ==
    /\ call.fn = "weighted_aggregate_grid_to_regions" /\ call.aggwt = "popwt"
    /\ AllOnGrid /\ "areawt" \notin DOMAIN weights
    /\ \A i \in Rows : FGtZero(weights.popwt[i])
    /\ result.status = "KeyError"

\* A caller's direct call of the provider has come back.
Back(c) == pc[c] = "done" /\ via[c] = "direct"

\* C6 (as claimed): a call of the provider with no source argument, direct
\* or through weighted_aggregate_grid_to_regions(weights=None), succeeds;
\* the first such call loads the default source, every later one gets the
\* same object from the cache, and the default source is read once.
C6_DefaultLoadedOnce ==
    \A c \in Callers :
        (pc[c] = "done" /\ args[c] = <<>>) =>
            /\ ret[c].status = "ok"
            /\ MemoKey(<<>>) \in DOMAIN cache
            /\ via[c] = "direct" => ret[c].value = cache[MemoKey(<<>>)]
            /\ reads["WEIGHTS_FILE"] = 1

\* C6's failing case: calls with no argument, one direct and one through
\* weighted_aggregate_grid_to_regions, have both raised NameError; nothing
\* was read and nothing is cached.
C6_DefaultRaisesNameError ==
    /\ \A c \in Callers : pc[c] = "done" /\ args[c] = <<>> /\ ret[c].status = "NameError"
    /\ \E c \in Callers : via[c] = "direct"
    /\ \E c \in Callers : via[c] = "wagr"
    /\ cache = <<>> /\ reads["WEIGHTS_FILE"] = 0

\* C7 (as claimed): when all callers have called the provider for one
\* readable source and have come back, each has a table, the tables have
\* the same content, and the cache holds one entry for the source, with
\* that content.
C7_CallersAgree ==
    \A a \in {<<>>} \cup {<<p>> : p \in DOMAIN files} :
        (\A c \in Callers : Back(c) /\ args[c] = a) =>
            /\ \A c \in Callers : ret[c].status = "ok"
            /\ MemoKey(a) \in DOMAIN cache
            /\ \A c \in Callers : heap[ret[c].value] = heap[cache[MemoKey(a)]]

\* C7 for the sources named by an argument: the callers agree, whatever
\* the interleaving, and no cached or returned table is half built.
C7_ExplicitSources ==
    /\ \A a \in {<<p>> : p \in DOMAIN files} :
          (\A c \in Callers : Back(c) /\ args[c] = a) =>
              /\ \A c \in Callers : ret[c].status = "ok"
              /\ MemoKey(a) \in DOMAIN cache
              /\ \A c \in Callers : heap[ret[c].value] = heap[cache[MemoKey(a)]]
    /\ \A k \in DOMAIN cache : heap[cache[k]].index_name = "reshape_index"

\* C7's failing case: both callers asked for the default source while the
\* cache was empty, and both are back with NameError and no table.
C7_DefaultSourceFails ==
    /\ \A c \in Callers : Back(c) /\ args[c] = <<>> /\ ret[c].status = "NameError"
    /\ ncalls = 2 /\ cache = <<>>

\* Two callers of one explicit source that both missed the cache: the source
\* was read twice, each caller has an object of its own, the two tables are
\* equal and the cache holds the one stored last.
C7_LoadedTwice ==
    /\ \A c \in Callers : Back(c) /\ args[c] = <<"w.csv">> /\ ret[c].status = "ok"
    /\ ncalls = 2 /\ reads["w.csv"] = 2
    /\ ret["c1"].value # ret["c2"].value
    /\ heap[ret["c1"].value] = heap[ret["c2"].value]
    /\ cache[MemoKey(<<"w.csv">>)] \in {ret["c1"].value, ret["c2"].value}

\* C8: the table the provider returns has the rows of the source in the
\* source's order, duplicates included; its index is named reshape_index,
\* pix_cent_x and pix_cent_y are named lon and lat; lon is -179.875 where
\* pix_cent_x was 180.125, and every other cell is the source's.
C8_NormalizedTable ==
    \A c \in Callers :
        (Back(c) /\ args[c] # <<>> /\ ret[c].status = "ok") =>
            LET raw == files[args[c][1]].cols
                df  == heap[ret[c].value]
                n   == Len(raw.pix_cent_x)
            IN  /\ df.index_name = "reshape_index"
                /\ DOMAIN df.cols = {"lon", "lat", "ISO", "popwt"}
                /\ \A col \in DOMAIN df.cols : DOMAIN df.cols[col] = 1..n
                /\ \A i \in 1..n :
                      /\ df.cols.lon[i] = IF raw.pix_cent_x[i] = 180125
                                          THEN -179875 ELSE raw.pix_cent_x[i]
                      /\ df.cols.lat[i] = raw.pix_cent_y[i]
                      /\ df.cols.ISO[i] = raw.ISO[i]
                      /\ df.cols.popwt[i] = raw.popwt[i]

\* C8's case: a source of two equal rows at longitude 180.125, returned as
\* two rows at -179.875.
C8_Witness ==
    \E c \in Callers :
        /\ Back(c) /\ args[c] # <<>> /\ ret[c].status = "ok"
        /\ files[args[c][1]].cols.pix_cent_x = <<180125, 180125>>
        /\ files[args[c][1]].cols.pix_cent_y = <<180125, 180125>>
        /\ heap[ret[c].value].cols.lon = <<-179875, -179875>>

====
